---------------------------- MODULE Spec2Model ----------------------------
(***************************************************************************)
(* A model of pyfor/cloud.py: the CloudData container (a pandas DataFrame  *)
(* of points plus a header object), the Cloud facade over it, and the      *)
(* operations Cloud.__init__, Cloud.clip, Cloud.normalize, Cloud.filter_z  *)
(* and Cloud.plot3d.                                                       *)
(*                                                                         *)
(* Python objects live in heaps (sequences indexed by object identity):    *)
(* headers and clouds (a Cloud together with the CloudData it holds), so   *)
(* that two references to one header object (self.header = header) are     *)
(* two uses of one index.  A DataFrame is a sequence of rows; each row     *)
(* carries its index label idx, the coordinates x, y, z and attr, which    *)
(* stands for the non-coordinate columns (intensity, classification,       *)
(* flag_byte, scan_angle_rank, user_data, pt_src_id).                      *)
(*                                                                         *)
(* The collaborators rasterizer.Grid, clip_funcs.square_clip and           *)
(* clip_funcs.poly_clip are not part of cloud.py; they are modelled from   *)
(* their documented role (operators Grid*, square_clip, poly_clip).        *)
(* laspy's HeaderManager.copy is taken to return an independent header     *)
(* object of the same type holding the same values, and assigning          *)
(* header.min, header.max and header.count to store the value assigned.    *)
(* The points of a CloudData are a pandas DataFrame, as Cloud.__init__     *)
(* builds them.                                                            *)
(***************************************************************************)
EXTENDS Integers, Sequences, FiniteSets

\* The las file on disk holds 1..MaxPoints points.
MaxPoints == 2
\* At most MaxClouds Cloud objects are built.
MaxClouds == 2

VARIABLES
    inplace,    \* whether this build's pandas writes df['z'] = ... into the
                \* memory a Series taken from df earlier still looks at
    file,       \* the points of the las file on disk, as ripped into a DataFrame
    headers,    \* heap of header objects
    clouds,     \* heap of Cloud objects, each with the CloudData it holds
    last        \* the last call: its arguments and its outcome

vars == <<inplace, file, headers, clouds, last>>

\* The (x, y, z) of the points a las file may hold: two that share y and
\* differ in x and z, and one apart from both.
Pool == {<<0, 0, 1>>, <<1, 0, 0>>, <<1, 1, 2>>}

\* The x and y values of Pool: the corners of the clip boxes.
Coord == {0, 1}

\* The cell sizes of normalize: one that separates the points of Pool, one
\* that puts them in one cell.
CellSizes == {1, 2}

\* float('nan'), outside every coordinate and every normalized height.
NaN == 0 - 1000

Range(s) == {s[i] : i \in 1..Len(s)}

---------------------------------------------------------------------------
(* pandas / numpy primitives, as cloud.py uses them *)

\* df[name]: the column as a positional sequence of values.
Column(df, name) == [i \in 1..Len(df) |-> df[i][name]]

\* np.min / np.max of a Series: Series.min()/max(), which skip NaN and give
\* NaN for an empty Series.
NpMin(s) ==
    LET vals == Range(s) \ {NaN}
    IN  IF vals = {} THEN NaN
        ELSE CHOOSE v \in vals : \A w \in vals : v <= w

NpMax(s) ==
    LET vals == Range(s) \ {NaN}
    IN  IF vals = {} THEN NaN
        ELSE CHOOSE v \in vals : \A w \in vals : v >= w

\* A df[mask] that keeps every row.
BoolIndexAll(df, mask) == df

\* df[mask] with a boolean mask: the rows whose mask entry is true, in order,
\* each keeping its index label.
BoolIndex(df, mask) ==
    LET F[i \in 0..Len(df)] ==
            IF i = 0 THEN <<>>
            ELSE IF mask[i] THEN Append(F[i - 1], df[i]) ELSE F[i - 1]
    IN  F[Len(df)]

\* A df['z'] = series that takes row i to carry the label i - 1, as if the
\* index had been reset.
SetItemZReindexed(df, series) ==
    [i \in 1..Len(df) |->
        LET hit == {j \in 1..Len(series) : series[j].idx = i - 1}
        IN  [df[i] EXCEPT !.z = IF hit = {} THEN NaN
                                ELSE series[CHOOSE j \in hit : TRUE].z]]

\* df['z'] = series: the column is assigned aligned on the index labels; a
\* row whose label the series lacks gets NaN.
SetItemZ(df, series) ==
    [i \in 1..Len(df) |->
        LET hit == {j \in 1..Len(series) : series[j].idx = df[i].idx}
        IN  [df[i] EXCEPT !.z = IF hit = {} THEN NaN
                                ELSE series[CHOOSE j \in hit : TRUE].z]]

\* df[key] for the three kinds of key cloud.py uses.  A tuple key such as
\* df[:, 2] is numpy indexing; DataFrame.__getitem__ tries to look the tuple
\* up as a column label and raises TypeError (a slice is unhashable).
GetItemRaises(keyKind) == keyKind = "tuple"

---------------------------------------------------------------------------
(* CloudData.__init__ *)

\* type(header) == laspy.header.HeaderManager
IsHeaderManager(h) == h.kind = "HeaderManager"

\* A CloudData that keeps the header object passed in, whatever its type.
HeaderOfNoCopy(hs, hid) == hid

\* The identity of the header the new CloudData holds: a fresh copy of a
\* HeaderManager, the very object passed in otherwise.
HeaderOf(hs, hid) ==
    IF IsHeaderManager(hs[hid]) THEN Len(hs) + 1 ELSE hid

\* header.min, header.max, header.count as __init__ assigns them.
Reformed(h, points) ==
    [h EXCEPT
        !.min = <<NpMin(Column(points, "x")), NpMin(Column(points, "y")),
                  NpMin(Column(points, "z"))>>,
        !.max = <<NpMax(Column(points, "x")), NpMax(Column(points, "y")),
                  NpMax(Column(points, "z"))>>,
        !.count = Len(points)]

\* The header heap after CloudData(points, header hid).
CloudDataHeaders(hs, points, hid) ==
    LET target == HeaderOf(hs, hid)
        newh == Reformed(hs[hid], points)
    IN  IF target > Len(hs) THEN Append(hs, newh)
        ELSE [hs EXCEPT ![target] = newh]

\* A Cloud whose las is the CloudData built by CloudData(points, header hid):
\* the points, the columns x, y, z taken from them at construction, and the
\* header reference.
CloudDataNew(hs, points, hid) ==
    [points |-> points,
     x |-> Column(points, "x"),
     y |-> Column(points, "y"),
     z |-> Column(points, "z"),
     header |-> HeaderOf(hs, hid)]

---------------------------------------------------------------------------
(* Collaborators outside cloud.py *)

\* clip_funcs.square_clip(cloud, bounds): the boolean mask of the points
\* inside the box bounds = (min x, min y, max x, max y), edges included.
square_clip(d, bounds) ==
    [i \in 1..Len(d.points) |->
        /\ d.points[i].x >= bounds[1] /\ d.points[i].x <= bounds[3]
        /\ d.points[i].y >= bounds[2] /\ d.points[i].y <= bounds[4]]

\* clip_funcs.poly_clip(cloud, geometry): the points inside the polygon, by
\* ray casting.  The polygons of the model are the triangles with vertices
\* (0,0), (k,0), (0,k); a point is inside when x + y <= k.
poly_clip(d, k) ==
    BoolIndex(d.points, [i \in 1..Len(d.points) |->
                            d.points[i].x + d.points[i].y <= k])

\* rasterizer.Grid(cloud, cell_size): each point's cell, counted from the
\* header's minimum x and y.
GridBin(d, hs, cell, i) ==
    <<(d.points[i].x - hs[d.header].min[1]) \div cell,
      (d.points[i].y - hs[d.header].min[2]) \div cell>>

\* Building the grid fails when the header holds no extent (NaN bounds).
GridRaises(d, hs) ==
    \/ hs[d.header].min[1] = NaN
    \/ hs[d.header].min[2] = NaN

\* Grid.normalize().data['z']: for every point, under its own index label,
\* its height above the ground elevation of its cell; the ground elevation
\* of a cell is the lowest z in it.
GridNormalize(d, hs, cell) ==
    [i \in 1..Len(d.points) |->
        LET same == {j \in 1..Len(d.points) :
                        GridBin(d, hs, cell, j) = GridBin(d, hs, cell, i)}
            ground == NpMin([j \in 1..Len(d.points) |->
                                IF j \in same THEN d.points[j].z ELSE NaN])
        IN  [idx |-> d.points[i].idx, z |-> d.points[i].z - ground]]

---------------------------------------------------------------------------
(* The inputs *)

\* The las files: 1..MaxPoints points of Pool, repeats allowed; row i of
\* the ripped DataFrame has index label i - 1 and attributes i.
FileFrames ==
    UNION {
        {[i \in 1..n |-> [idx |-> i - 1, x |-> c[i][1], y |-> c[i][2],
                          z |-> c[i][3], attr |-> i]] :
            c \in [1..n -> Pool]}
        : n \in 1..MaxPoints}

\* The header laspy reads from a valid las file.
FileHeader(f) ==
    Reformed([kind |-> "HeaderManager", count |-> 0,
              min |-> <<NaN, NaN, NaN>>, max |-> <<NaN, NaN, NaN>>], f)

\* A header object that is no laspy HeaderManager, before it is filled in.
CustomHeader ==
    [kind |-> "custom", count |-> 0,
     min |-> <<NaN, NaN, NaN>>, max |-> <<NaN, NaN, NaN>>]

\* The arguments of Cloud(las): a path, a laspy.file.File, a CloudData (built
\* by the caller from the file's DataFrame and either the file's
\* HeaderManager or a header object of another type), or anything else.
CloudInputs ==
    {[type |-> t, header |-> "none"] : t \in {"str", "File", "other"}}
        \cup {[type |-> "CloudData", header |-> k] :
                k \in {"HeaderManager", "custom"}}

\* The arguments of clip(geometry): a 4-tuple, an ogr.Geometry, or a tuple
\* of a point and a radius.
Geometries ==
    {[type |-> "tuple", len |-> 4, v |-> <<a, b, c, d>>] :
        a \in Coord, b \in Coord, c \in Coord, d \in Coord}
    \cup {[type |-> "ogr", len |-> 0, v |-> <<k>>] : k \in Coord}
    \cup {[type |-> "tuple", len |-> 2, v |-> <<<<a, b>>, 1>>] :
            a \in Coord, b \in Coord}

\* The record of a call: the method, the Cloud it is called on (self), its
\* arguments, the header object handed to CloudData (hdr, 0 when no
\* CloudData is built), the exception raised, the Cloud returned or built
\* (result, 0 when none holds a CloudData) and what the call computed or
\* printed on the way (out).
NoCall ==
    [op |-> "none", exc |-> "none", self |-> 0, arg |-> <<>>, hdr |-> 0,
     result |-> 0, out |-> <<>>]

Call(op, self, arg) ==
    [NoCall EXCEPT !.op = op, !.self = self, !.arg = arg]

\* The call raises: nothing it has done so far changed an object.
Raise(op, self, arg, e) ==
    /\ last' = [Call(op, self, arg) EXCEPT !.exc = e]
    /\ UNCHANGED <<inplace, file, headers, clouds>>

Init ==
    /\ inplace \in BOOLEAN
    /\ file \in FileFrames
    /\ headers = <<FileHeader(file)>>
    /\ clouds = <<>>
    /\ last = NoCall

---------------------------------------------------------------------------
(* The operations *)

\* Cloud.__init__(las)
CloudInit(las) ==
    /\ Len(clouds) < MaxClouds
    /\ IF las.type = "str"
       THEN \* laspy.file.File(las), points ripped, CloudData(points, header)
            /\ headers' = CloudDataHeaders(headers, file, 1)
            /\ clouds' = Append(clouds, CloudDataNew(headers, file, 1))
            /\ last' = [Call("Cloud", Len(clouds) + 1, las) EXCEPT
                           !.hdr = 1, !.result = Len(clouds) + 1]
       ELSE IF las.type = "CloudData"
       THEN \* the argument is CloudData(points, header); self.las = las
            LET hs == IF las.header = "custom"
                      THEN Append(headers, CustomHeader) ELSE headers
                hid == IF las.header = "custom" THEN Len(hs) ELSE 1
            IN  /\ headers' = CloudDataHeaders(hs, file, hid)
                /\ clouds' = Append(clouds, CloudDataNew(hs, file, hid))
                /\ last' = [Call("Cloud", Len(clouds) + 1, las) EXCEPT
                               !.hdr = hid,
                               !.result = Len(clouds) + 1]
       ELSE \* print("Object type not supported, ..."): self.las is never
            \* set, and every method of the object raises AttributeError.
            \* The object is left out of the heap: result 0 stands for it.
            /\ last' = [Call("Cloud", 0, las) EXCEPT
                           !.out = <<"Object type not supported">>]
            /\ UNCHANGED <<headers, clouds>>
    /\ UNCHANGED <<inplace, file>>

\* Cloud.clip(geometry)
Clip(c, g) ==
    /\ Len(clouds) < MaxClouds
    /\ LET square == g.type = "tuple" /\ g.len = 4
           poly == g.type = "ogr"
           d == clouds[c]
       IN  IF ~(square \/ poly)
           THEN \* keep_points was never assigned
                Raise("clip", c, <<g.type, g.len>>, "UnboundLocalError")
           ELSE LET mask == IF square THEN square_clip(d, g.v) ELSE <<>>
                    keep_points == IF square THEN BoolIndex(d.points, mask)
                                   ELSE poly_clip(d, g.v[1])
                IN  /\ headers' = CloudDataHeaders(headers, keep_points, d.header)
                    /\ clouds' = Append(clouds,
                                   CloudDataNew(headers, keep_points, d.header))
                    /\ last' = [Call("clip", c, <<g.type, g.len>>) EXCEPT
                                   !.hdr = d.header,
                                   !.result = Len(clouds) + 1, !.out = mask]
                    /\ UNCHANGED <<inplace, file>>

\* Cloud.normalize(cell_size)
Normalize(c, cell_size) ==
    LET d == clouds[c]
    IN  IF GridRaises(d, headers)
        THEN Raise("normalize", c, <<cell_size>>, "ValueError")
        ELSE LET dem == GridNormalize(d, headers, cell_size)
                 points == SetItemZ(d.points, dem)
             IN  \* self.las.z stays the Series taken at construction; it
                 \* shows the new heights only if pandas wrote them in place.
                 /\ clouds' = [clouds EXCEPT
                                 ![c] = [d EXCEPT
                                           !.points = points,
                                           !.z = IF inplace
                                                 THEN Column(points, "z")
                                                 ELSE d.z]]
                 /\ last' = [Call("normalize", c, <<cell_size>>) EXCEPT
                                !.out = dem]
                 /\ UNCHANGED <<inplace, file, headers>>

\* Cloud.filter_z(min, max)
FilterZ(c, min, max) ==
    LET d == clouds[c]
    IN  IF GetItemRaises("tuple")
        THEN \* self.las.points[:,2] on a DataFrame
             Raise("filter_z", c, <<min, max>>, "TypeError")
        ELSE LET condition == [i \in 1..Len(d.points) |->
                                 d.points[i].z > min /\ d.points[i].z < max]
                 points == BoolIndex(d.points, condition)
             IN  /\ clouds' = [clouds EXCEPT
                                ![c] = [d EXCEPT
                                            !.points = points,
                                            !.x = Column(points, "x"),
                                            !.y = Column(points, "y"),
                                            !.z = Column(points, "z")]]
                 /\ headers' = [headers EXCEPT
                                  ![d.header] = Reformed(@, points)]
                 /\ last' = Call("filter_z", c, <<min, max>>)
                 /\ UNCHANGED <<inplace, file>>

\* Cloud.plot3d(max_points = mp2 / 2): last.out is what is handed to
\* GLScatterPlotItem.
Plot3d(c, mp2) ==
    LET d == clouds[c]
        count == headers[d.header].count
        \* np.stack([self.las.x, self.las.y, self.las.z], axis = 1)
        stacked == [i \in 1..Len(d.x) |-> <<d.x[i], d.y[i], d.z[i]>>]
    IN           IF 2 * count > mp2
                 THEN \* np.random.randint(count, size = int(max_points))
                      \E sample_mask \in [1..(mp2 \div 2) -> 0..(count - 1)] :
                        IF \E i \in DOMAIN sample_mask :
                                sample_mask[i] >= Len(stacked)
                        THEN Raise("plot3d", c, <<mp2>>, "IndexError")
                        ELSE IF mp2 \div 2 = 0
                        THEN \* min(z) of no points
                             Raise("plot3d", c, <<mp2>>, "ValueError")
                        ELSE /\ last' = [Call("plot3d", c, <<mp2>>) EXCEPT
                                            !.out = [i \in DOMAIN sample_mask |->
                                                stacked[sample_mask[i] + 1]]]
                             /\ UNCHANGED <<inplace, file, headers, clouds>>
                 ELSE IF stacked = <<>>
                 THEN Raise("plot3d", c, <<mp2>>, "ValueError")
                 ELSE /\ last' = [Call("plot3d", c, <<mp2>>) EXCEPT
                                     !.out = stacked]
                      /\ UNCHANGED <<inplace, file, headers, clouds>>

Next ==
    \/ \E las \in CloudInputs : CloudInit(las)
    \/ \E c \in 1..Len(clouds), g \in Geometries : Clip(c, g)
    \/ \E c \in 1..Len(clouds), cell_size \in CellSizes : Normalize(c, cell_size)
    \/ \E c \in 1..Len(clouds), min \in Coord, max \in Coord : FilterZ(c, min, max)
    \/ \E c \in 1..Len(clouds), mp2 \in 0..(2 * MaxPoints + 1) : Plot3d(c, mp2)

Spec == Init /\ [][Next]_vars

\* The operations that build or change an object.  filter_z and plot3d
\* leave every object as it was (filter_z raises before it assigns).
NextHeap ==
    \/ \E las \in CloudInputs : CloudInit(las)
    \/ \E c \in 1..Len(clouds), g \in Geometries : Clip(c, g)
    \/ \E c \in 1..Len(clouds), cell_size \in CellSizes : Normalize(c, cell_size)

SpecHeap == Init /\ [][NextHeap]_vars

---------------------------------------------------------------------------
(* What the claims speak of *)

\* The values the points take on axis a (1: x, 2: y, 3: z).
AxisVals(points, a) ==
    {IF a = 1 THEN points[i].x ELSE IF a = 2 THEN points[i].y
     ELSE points[i].z : i \in 1..Len(points)}

\* Header h keeps the books of points: count is their number and, when
\* there is a point, min and max are the least and greatest value per axis.
HeaderMatches(h, points) ==
    /\ h.count = Len(points)
    /\ Len(points) > 0 =>
        \A a \in 1..3 :
            /\ h.min[a] \in AxisVals(points, a)
            /\ h.max[a] \in AxisVals(points, a)
            /\ \A v \in AxisVals(points, a) : h.min[a] <= v /\ v <= h.max[a]

\* The n-th smallest element of a set of numbers.
NthOf(S, n) == CHOOSE j \in S : Cardinality({k \in S : k < j}) = n - 1

\* res holds exactly the rows of src whose mask entry is true, in src's
\* order, each as it is in src.
IsSelection(res, src, mask) ==
    LET kept == {i \in 1..Len(src) : mask[i]}
    IN  /\ Len(mask) = Len(src)
        /\ Len(res) = Cardinality(kept)
        /\ \A n \in 1..Len(res) : res[n] = src[NthOf(kept, n)]

\* The (x, y, z) of the points a Cloud holds, in order.
PointsOf(d) ==
    [i \in 1..Len(d.points) |->
        <<d.points[i].x, d.points[i].y, d.points[i].z>>]

\* C1: clip with a 4-tuple returns a new Cloud; its points are exactly the
\* source points whose square_clip mask entry is true, in source order and
\* unaltered; its header's count, min and max are those of the kept points;
\* the source keeps its points.
C1_ClipSquare ==
    [][(last'.op = "clip" /\ last'.arg = <<"tuple", 4>>) =>
        /\ last'.exc = "none"
        /\ last'.result = Len(clouds) + 1
        /\ Len(clouds') = Len(clouds) + 1
        /\ IsSelection(clouds'[last'.result].points,
                       clouds[last'.self].points, last'.out)
        /\ HeaderMatches(headers'[clouds'[last'.result].header],
                         clouds'[last'.result].points)
        /\ clouds'[last'.self].points = clouds[last'.self].points]_vars

\* C1 witness: a square clip has returned a Cloud that holds some, not all,
\* of the source's points.
C1_Witness ==
    /\ last.op = "clip" /\ last.arg = <<"tuple", 4>> /\ last.exc = "none"
    /\ Len(clouds[last.result].points) > 0
    /\ Len(clouds[last.result].points) < Len(clouds[last.self].points)
    /\ \E i \in DOMAIN last.out : ~last.out[i] /\ i < Len(last.out)

\* C2: clip accepts a 4-tuple, an OGR geometry and a (point, radius) tuple,
\* and for each returns a new Cloud.
C2_ClipAcceptsAll ==
    last.op = "clip" =>
        /\ last.exc = "none"
        /\ last.result = Len(clouds)

\* C3: right after CloudData(points, header), the header the CloudData
\* holds has count = number of points and min, max = the per-axis least and
\* greatest coordinates; a HeaderManager passed in is copied, and the object
\* passed in stays as it was.
C3_CloudDataHeader ==
    [][last'.hdr # 0 =>
        LET d == clouds'[last'.result]
        IN  /\ HeaderMatches(headers'[d.header], d.points)
            /\ (last'.hdr <= Len(headers) /\ IsHeaderManager(headers[last'.hdr]))
                  => /\ d.header # last'.hdr
                     /\ headers'[last'.hdr] = headers[last'.hdr]]_vars

\* C3 witness: a CloudData was built from a HeaderManager whose values
\* differ from those of the new points.
C3_Witness ==
    /\ last.hdr # 0
    /\ IsHeaderManager(headers[last.hdr])
    /\ Len(clouds[last.result].points) > 0
    /\ headers[clouds[last.result].header] # headers[last.hdr]

\* C4: normalize works in place and changes only heights: no Cloud is
\* built, every other Cloud stays as it was, the Cloud keeps its number of
\* points, each point keeps x, y, its attributes and its label, and each
\* point's z is the z Grid.normalize produced for it.
C4_NormalizeOnlyHeights ==
    [][(last'.op = "normalize" /\ last'.exc = "none") =>
        LET c == last'.self
            p == clouds[c].points
            q == clouds'[c].points
        IN  /\ Len(clouds') = Len(clouds)
            /\ \A k \in 1..Len(clouds) : k # c => clouds'[k] = clouds[k]
            /\ Len(q) = Len(p)
            /\ \A i \in 1..Len(p) :
                /\ q[i].x = p[i].x /\ q[i].y = p[i].y
                /\ q[i].attr = p[i].attr /\ q[i].idx = p[i].idx
                /\ \E j \in 1..Len(last'.out) :
                    /\ last'.out[j].idx = p[i].idx
                    /\ q[i].z = last'.out[j].z]_vars

\* C4 witness: normalize has returned on a Cloud of two or more points, one
\* of which no longer has the height the file gave it.
C4_Witness ==
    /\ last.op = "normalize" /\ last.exc = "none"
    /\ Len(clouds[last.self].points) >= 2
    /\ \E i \in 1..Len(clouds[last.self].points) :
        LET r == clouds[last.self].points[i]
        IN  r.z # file[r.idx + 1].z

\* C5: filter_z(min, max) returns with the Cloud holding exactly the
\* previous points with min < z < max, in order, and the header's count,
\* min and max recomputed from them.
C5_FilterZ ==
    [][last'.op = "filter_z" =>
        LET c == last'.self
            p == clouds[c].points
        IN  /\ last'.exc = "none"
            /\ IsSelection(clouds'[c].points, p,
                   [i \in 1..Len(p) |-> p[i].z > last'.arg[1]
                                        /\ p[i].z < last'.arg[2]])
            /\ HeaderMatches(headers'[clouds'[c].header],
                             clouds'[c].points)]_vars

\* C6: Cloud(las) given a path, a laspy.file.File or a CloudData builds a
\* Cloud whose las holds the input's points; any other input is reported as
\* unsupported.
C6_CloudAcceptsAll ==
    last.op = "Cloud" =>
        IF last.arg.type \in {"str", "File", "CloudData"}
        THEN /\ last.result # 0
             /\ clouds[last.result].points = file
        ELSE last.out = <<"Object type not supported">>

\* C7: plot3d renders int(max_points) points, each a point of the cloud,
\* when header.count > max_points, and every point of the cloud exactly once
\* otherwise; it never renders more than max_points points.
C7_Plot3d ==
    (last.op = "plot3d" /\ last.exc = "none") =>
        LET d == clouds[last.self]
            count == headers[d.header].count
            mp2 == last.arg[1]
        IN  /\ 2 * count > mp2 =>
                /\ Len(last.out) = mp2 \div 2
                /\ \A i \in 1..Len(last.out) :
                        last.out[i] \in Range(PointsOf(d))
            /\ 2 * count <= mp2 => last.out = PointsOf(d)
            /\ 2 * Len(last.out) <= mp2

\* C8: every Cloud's header has count = the number of its points and min,
\* max = the per-axis least and greatest of its points' x, y, z.
C8_HeaderBookkeeping ==
    \A c \in 1..Len(clouds) :
        HeaderMatches(headers[clouds[c].header], clouds[c].points)

=============================================================================
